---- MODULE Spec2Model ----
(***************************************************************************)
(* A model of the GreyNoise API client (greynoise/client.py) and of the    *)
(* location derivation of its text formatters (greynoise/cli/formatter.py).*)
(*                                                                         *)
(* The client is single-threaded and synchronous: one public operation     *)
(* runs at a time.  Every operation but the recursive bulk dump is one     *)
(* action (validation, the single HTTP exchange, post-processing).  The    *)
(* recursive bulk dump is one action for the call (get_noise up to the     *)
(* first invocation of _recurse) and one action per invocation of          *)
(* _recurse, which holds exactly one HTTP exchange.                        *)
(***************************************************************************)
EXTENDS Integers, Sequences, FiniteSets, TLC

VARIABLES
    pc,        \* "idle" | "recursing" (inside get_noise(recurse=True)) | "done"
    op,        \* the public operation called last
    args,      \* its arguments
    server,    \* the pages the server will answer a recursive dump with, in order
    requests,  \* the HTTP exchanges of the current call, in order
    config,    \* the pagination config of get_noise(recurse=True)
    breaker,   \* the breaker argument of the pending _recurse invocation
    outcome,   \* "none" | "returned" | the name of the exception raised
    raised,    \* the arguments of a raised RequestFailure
    result,    \* the value returned
    doc        \* the object a formatter was given, as the formatter leaves it

vars == <<pc, op, args, server, requests, config, breaker, outcome, raised, result, doc>>

(***************************************************************************)
(* Bounds of the model.                                                    *)
(***************************************************************************)
MaxPages == 3   \* pages of one recursive bulk dump
MaxBulk == 3    \* entries of the list given to get_noise_status_bulk
MaxData == 2    \* entries under "data" of a GNQL result

(***************************************************************************)
(* Python values.  A value whose type varies (a return value, the json     *)
(* argument of a request, an optional argument) carries its type.          *)
(***************************************************************************)
None == [type |-> "NoneType"]
Str(s) == [type |-> "str", value |-> s]
List(l) == [type |-> "list", value |-> l]
Tuple(l) == [type |-> "tuple", value |-> l]
Dict(d) == [type |-> "dict", value |-> d]
EmptyDict == <<>>

\* Python truthiness of an optional string argument: None and "" are falsy.
Truthy(v) == v.type = "str" /\ v.value # ""

SeqsUpTo(S, n) == UNION {[1..k -> S] : k \in 0..n}

Range(s) == {s[i] : i \in DOMAIN s}

\* All the lists that hold each element of the finite set S once: the orders
\* list(set(...)) can produce.
Orderings(S) == {l \in [1..Cardinality(S) -> S] : Range(l) = S}

(***************************************************************************)
(* Class attributes of GreyNoise.                                          *)
(***************************************************************************)
BASE_URL == "https://enterprise.api.greynoise.io"
CLIENT_VERSION == 1
API_VERSION == "v2"
EP_NOISE_BULK == "noise/bulk"
EP_NOISE_BULK_DATE(date) == "noise/bulk/" \o date
EP_NOISE_QUICK(ip_address) == "noise/quick/" \o ip_address
EP_NOISE_MULTI == "noise/multi/quick"
EP_NOISE_CONTEXT(ip_address) == "noise/context/" \o ip_address
UNKNOWN_CODE_MESSAGE(code) == "Code message unknown: " \o code
CODE_MESSAGES ==
    [c \in {"0x00", "0x01", "0x02", "0x03", "0x04", "0x05", "0x06", "0x07", "0x08"} |->
        CASE c = "0x00" -> "IP has never been observed scanning the Internet"
          [] c = "0x01" -> "IP has been observed by the GreyNoise sensor network"
          [] c = "0x02" -> "IP has been observed scanning the GreyNoise sensor network, "
                           \o "but has not completed a full connection, meaning this can be spoofed"
          [] c = "0x03" -> "IP is adjacent to another host that has been directly observed "
                           \o "by the GreyNoise sensor network"
          [] c = "0x04" -> "RESERVED"
          [] c = "0x05" -> "IP is commonly spoofed in Internet-scan activity"
          [] c = "0x06" -> "IP has been observed as noise, but this host belongs to a cloud provider "
                           \o "where IPs can be cycled frequently"
          [] c = "0x07" -> "IP is invalid"
          [] c = "0x08" -> "IP was classified as noise, but has not been observed "
                           \o "engaging in Internet-wide scans or attacks in over 60 days"]
API_KEY == "<api_key>"
TIMEOUT == 7

(***************************************************************************)
(* greynoise.util (not among the sources; modelled from the specification, *)
(* section 4.1, on the inputs the model draws).                            *)
(***************************************************************************)
WellFormedIPs == {"8.8.8.8", "1.1.1.1"}
IPInputs == WellFormedIPs \cup {"not-an-ip", "999.999.999.999"}
RealDates == {"2019-01-01"}
DateInputs == RealDates \cup {"", "2019-02-30", "yesterday"}

\* validate_ip(s, strict): true iff s is well formed; a rejection raises under
\* strict and returns false otherwise.
validate_ip(ip_address, strict) ==
    [returns |-> ip_address \in WellFormedIPs,
     raises |-> strict /\ ip_address \notin WellFormedIPs]

\* validate_date(s): raises unless s is YYYY-MM-DD and a real calendar date.
validate_date(date) == [raises |-> date \notin RealDates]

(***************************************************************************)
(* The server.  A response is what requests.get hands back: the transport  *)
(* may fail (no response at all); otherwise there is a status code, the    *)
(* raw content, and what response.json() makes of it.  Bodies at a 2xx     *)
(* status have the shape section 6 of the specification gives for the      *)
(* endpoint.                                                               *)
(***************************************************************************)
OkStatusCodes == {200, 298, 299}
ErrorStatusCodes == {199, 300, 404, 500}
ErrorJson == [error |-> "denied"]

JsonResponse(s, b) ==
    [transport_ok |-> TRUE, status_code |-> s, content |-> "<json>", json_ok |-> TRUE, json |-> b]
NotJsonResponse(s) ==
    [transport_ok |-> TRUE, status_code |-> s, content |-> "<html>", json_ok |-> FALSE, json |-> <<>>]
TransportFailure ==
    [transport_ok |-> FALSE, status_code |-> 0, content |-> "", json_ok |-> FALSE, json |-> <<>>]

Responses(bodies) ==
    {JsonResponse(s, b) : s \in OkStatusCodes, b \in bodies}
        \cup {JsonResponse(s, ErrorJson) : s \in ErrorStatusCodes}
        \cup {NotJsonResponse(s) : s \in {200, 404}}
        \cup {TransportFailure}

\* noise/quick/{ip} and the elements of noise/multi/quick: {code, ...}
ServerCodes == DOMAIN CODE_MESSAGES \cup {"0x09", "0xFF"}
StatusRecords ==
    {[code |-> c, ip |-> "8.8.8.8", noise |-> TRUE] : c \in ServerCodes}
        \cup {[code |-> "0x01", ip |-> "1.1.1.1", noise |-> TRUE, code_message |-> "stale"]}
BulkStatusBodies ==
    {<<>>} \cup {<<r>> : r \in StatusRecords} \cup {<<r1, r2>> : r1 \in StatusRecords, r2 \in {r \in StatusRecords : r.code \in {"0x00", "0x05", "0xFF"}}}

\* noise/context/{ip} and the entries of a GNQL result: {seen, metadata}
Metadatas ==
    [city : {"", "Paris"}, country : {"", "France"}, country_code : {"", "FR"}]
ContextBodies ==
    {[seen |-> s, metadata |-> m] : s \in BOOLEAN, m \in Metadatas}

\* noise/bulk and noise/bulk/{date}: {noise_ips, complete}
NoiseLists == {<<>>, <<"a", "b">>, <<"b", "c">>, <<"d">>, <<"a", "a">>}
NoiseBodies == [noise_ips : NoiseLists, complete : BOOLEAN]

(***************************************************************************)
(* GreyNoise._request: one GET; a status outside range(200, 299) raises    *)
(* RequestFailure(status_code, content), any other returns                 *)
(* response.json().  An exception of requests.get or of response.json()    *)
(* passes through.                                                         *)
(***************************************************************************)
\* Mutant: every 2xx status is taken as a success.
status_in_2xx(status_code) == status_code \in 200..299

status_in_range(status_code) == status_code \in 200..(299 - 1)

Exchange(endpoint, params, json, response) ==
    [method |-> "GET",
     url |-> BASE_URL \o "/" \o API_VERSION \o "/" \o endpoint,
     headers |-> ("X-Request-Client" :> ("pyGreyNoise v" \o ToString(CLIENT_VERSION)))
                     @@ ("key" :> API_KEY),
     timeout |-> TIMEOUT,
     endpoint |-> endpoint,
     params |-> IF params.type = "NoneType" THEN EmptyDict ELSE params.value,
     json |-> json,
     response |-> response]

NoRaised == [status_code |-> 0, content |-> ""]

_request(endpoint, params, json, response) ==
    [exchange |-> Exchange(endpoint, params, json, response),
     outcome |-> IF ~response.transport_ok THEN "TransportError"
                 ELSE IF ~status_in_range(response.status_code) THEN "RequestFailure"
                 ELSE IF ~response.json_ok THEN "JSONDecodeError"
                 ELSE "returned",
     raised |-> IF response.transport_ok /\ ~status_in_range(response.status_code)
                THEN [status_code |-> response.status_code, content |-> response.content]
                ELSE NoRaised,
     returns |-> response.json]

(***************************************************************************)
(* The end of a public operation that is a single action.                  *)
(***************************************************************************)
NoConfig == [endpoint |-> "", params |-> EmptyDict, results |-> <<>>, data_key |-> ""]
NoDoc == None

Done(o, a, reqs, out, rsd, res, d) ==
    /\ pc' = "done"
    /\ op' = o
    /\ args' = a
    /\ server' = <<>>
    /\ requests' = reqs
    /\ config' = NoConfig
    /\ breaker' = FALSE
    /\ outcome' = out
    /\ raised' = rsd
    /\ result' = res
    /\ doc' = d

Finish(o, a, reqs, out, rsd, res) == Done(o, a, reqs, out, rsd, res, NoDoc)

\* A single exchange ended with an exception, which the operation lets through.
Propagate(o, a, r) == Finish(o, a, <<r.exchange>>, r.outcome, r.raised, None)

(***************************************************************************)
(* Code enrichment: result["code_message"] = CODE_MESSAGES.get(code,       *)
(* UNKNOWN_CODE_MESSAGE.format(code)), the other keys left as they are.    *)
(***************************************************************************)
\* Mutant: the unknown-code message is left unformatted.
EnrichUnformatted(r) ==
    LET code == r.code
        message == IF code \in DOMAIN CODE_MESSAGES THEN CODE_MESSAGES[code]
                   ELSE "Code message unknown: {}"
    IN [k \in DOMAIN r \cup {"code_message"} |->
            IF k = "code_message" THEN message ELSE r[k]]

Enrich(r) ==
    LET code == r.code
        message == IF code \in DOMAIN CODE_MESSAGES THEN CODE_MESSAGES[code]
                   ELSE UNKNOWN_CODE_MESSAGE(code)
    IN [k \in DOMAIN r \cup {"code_message"} |->
            IF k = "code_message" THEN message ELSE r[k]]

(***************************************************************************)
(* GreyNoise.get_noise_status(ip_address)                                  *)
(***************************************************************************)
\* Mutant: the request is issued before the address is validated.
get_noise_status_request_first(ip_address, response) ==
    /\ pc = "idle"
    /\ LET a == [ip_address |-> ip_address]
           r == _request(EP_NOISE_QUICK(ip_address), None, None, response)
       IN IF r.outcome # "returned"
          THEN Propagate("get_noise_status", a, r)
          ELSE IF validate_ip(ip_address, TRUE).raises
          THEN Finish("get_noise_status", a, <<r.exchange>>, "ValueError", NoRaised, None)
          ELSE Finish("get_noise_status", a, <<r.exchange>>, "returned", NoRaised,
                      Dict(Enrich(r.returns)))

get_noise_status(ip_address, response) ==
    /\ pc = "idle"
    /\ LET a == [ip_address |-> ip_address] IN
       IF validate_ip(ip_address, TRUE).raises
       THEN Finish("get_noise_status", a, <<>>, "ValueError", NoRaised, None)
       ELSE LET r == _request(EP_NOISE_QUICK(ip_address), None, None, response) IN
            IF r.outcome # "returned"
            THEN Propagate("get_noise_status", a, r)
            ELSE Finish("get_noise_status", a, <<r.exchange>>, "returned", NoRaised,
                        Dict(Enrich(r.returns)))

(***************************************************************************)
(* GreyNoise.get_noise_status_bulk(ip_addresses)                           *)
(***************************************************************************)
\* Mutant: a valid entry is kept only where it first occurs.
FilterIpsUnique(ip_addresses) ==
    LET kept == {i \in DOMAIN ip_addresses :
                    /\ validate_ip(ip_addresses[i], FALSE).returns
                    /\ \A j \in 1..(i - 1) : ip_addresses[j] # ip_addresses[i]}
        nth(n) == CHOOSE i \in kept : Cardinality({j \in kept : j < i}) = n - 1
    IN [n \in 1..Cardinality(kept) |-> ip_addresses[nth(n)]]

FilterIps(ip_addresses) ==
    SelectSeq(ip_addresses, LAMBDA ip_address : validate_ip(ip_address, FALSE).returns)

EnrichAll(results) == [i \in DOMAIN results |-> Enrich(results[i])]

get_noise_status_bulk(ip_addresses, response) ==
    /\ pc = "idle"
    /\ LET a == [ip_addresses |-> ip_addresses] IN
       IF ip_addresses.type # "list"
       THEN Finish("get_noise_status_bulk", a, <<>>, "ValueError", NoRaised, None)
       ELSE LET r == _request(EP_NOISE_MULTI, None,
                              Dict([ips |-> FilterIps(ip_addresses.value)]), response) IN
            IF r.outcome # "returned"
            THEN Propagate("get_noise_status_bulk", a, r)
            ELSE Finish("get_noise_status_bulk", a, <<r.exchange>>, "returned", NoRaised,
                        List(EnrichAll(r.returns)))

(***************************************************************************)
(* GreyNoise.get_context(ip_address)                                       *)
(***************************************************************************)
get_context(ip_address, response) ==
    /\ pc = "idle"
    /\ LET a == [ip_address |-> ip_address] IN
       IF validate_ip(ip_address, TRUE).raises
       THEN Finish("get_context", a, <<>>, "ValueError", NoRaised, None)
       ELSE LET r == _request(EP_NOISE_CONTEXT(ip_address), None, None, response) IN
            IF r.outcome # "returned"
            THEN Propagate("get_context", a, r)
            ELSE Finish("get_context", a, <<r.exchange>>, "returned", NoRaised,
                        Dict(r.returns))

(***************************************************************************)
(* GreyNoise.get_noise(date, recurse)                                      *)
(***************************************************************************)
\* "if date:" guards the validation and the dated endpoint alike.
DateRaises(date) == Truthy(date) /\ validate_date(date.value).raises

NoiseEndpoint(date) ==
    IF Truthy(date) THEN EP_NOISE_BULK_DATE(date.value) ELSE EP_NOISE_BULK

\* Mutant: the list is returned as the server sent it.
NotDeduplicated(noise_ips) == {noise_ips}

\* list(set(noise_ips)): each element once, in an order the set decides.
Deduplicated(noise_ips) == Orderings(Range(noise_ips))

\* recurse=False: one request, the page's noise_ips deduplicated and counted.
get_noise_once(date, response) ==
    /\ pc = "idle"
    /\ LET a == [date |-> date, recurse |-> FALSE] IN
       IF DateRaises(date)
       THEN Finish("get_noise", a, <<>>, "ValueError", NoRaised, None)
       ELSE LET r == _request(NoiseEndpoint(date), None, None, response) IN
            IF r.outcome # "returned"
            THEN Propagate("get_noise", a, r)
            ELSE \E results \in Deduplicated(r.returns.noise_ips) :
                    Finish("get_noise", a, <<r.exchange>>, "returned", NoRaised,
                           Dict([results |-> results, result_count |-> Len(results)]))

\* recurse=True, up to the call of _recurse(config).  The server's pages for
\* this dump are fixed here; _recurse receives them one per request.
get_noise_recurse(date, pages) ==
    /\ pc = "idle"
    /\ LET a == [date |-> date, recurse |-> TRUE] IN
       IF DateRaises(date)
       THEN Finish("get_noise", a, <<>>, "ValueError", NoRaised, None)
       ELSE /\ pc' = "recursing"
            /\ op' = "get_noise"
            /\ args' = a
            /\ server' = pages
            /\ requests' = <<>>
            /\ config' = [endpoint |-> NoiseEndpoint(date), params |-> EmptyDict,
                          results |-> <<>>, data_key |-> "noise_ips"]
            /\ breaker' = FALSE
            /\ outcome' = "none"
            /\ raised' = NoRaised
            /\ result' = None
            /\ doc' = NoDoc

(***************************************************************************)
(* GreyNoise._recurse(config, breaker): one invocation.  Its local results *)
(* is None and nothing else is ever returned: the value of the inner       *)
(* invocation is dropped, and an invocation that does not recurse falls    *)
(* off its end.  So every return unwinds to get_noise with None.           *)
(***************************************************************************)
\* Mutant: the test of the complete flag is inverted.
IncompleteInverted(response_json) == response_json.complete

\* "if not response["complete"]": the page is not the last one.
Incomplete(response_json) == ~response_json.complete

\* Mutant: the page's items are added to the accumulator.
AccumulatedItems(cfg, response_json) ==
    [cfg EXCEPT !.results = @ \o response_json[cfg.data_key]]

\* config["results"].append(config["data_key"])
Accumulated(cfg, response_json) == [cfg EXCEPT !.results = Append(@, cfg.data_key)]

\* Mutant: a failed request is swallowed and the next page asked for.
_recurse_swallowing ==
    /\ pc = "recursing"
    /\ IF breaker
       THEN /\ pc' = "done"
            /\ outcome' = "returned"
            /\ result' = None
            /\ UNCHANGED <<op, args, server, requests, config, breaker, raised, doc>>
       ELSE /\ Len(requests) < Len(server)
            /\ LET response == server[Len(requests) + 1]
                   r == _request(config.endpoint, Dict(config.params), None, response)
               IN /\ requests' = Append(requests, r.exchange)
                  /\ IF r.outcome # "returned"
                     THEN UNCHANGED <<pc, outcome, raised, config, breaker, result>>
                     ELSE IF Incomplete(r.returns)
                     THEN /\ config' = Accumulated(config, r.returns)
                          /\ breaker' = r.returns.complete
                          /\ UNCHANGED <<pc, outcome, raised, result>>
                     ELSE /\ pc' = "done"
                          /\ outcome' = "returned"
                          /\ result' = None
                          /\ UNCHANGED <<config, breaker, raised>>
            /\ UNCHANGED <<op, args, server, doc>>

_recurse ==
    /\ pc = "recursing"
    /\ IF breaker
       THEN /\ pc' = "done"
            /\ outcome' = "returned"
            /\ result' = None
            /\ UNCHANGED <<op, args, server, requests, config, breaker, raised, doc>>
       ELSE /\ Len(requests) < Len(server)
            /\ LET response == server[Len(requests) + 1]
                   r == _request(config.endpoint, Dict(config.params), None, response)
               IN /\ requests' = Append(requests, r.exchange)
                  /\ IF r.outcome # "returned"
                     THEN /\ pc' = "done"
                          /\ outcome' = r.outcome
                          /\ raised' = r.raised
                          /\ UNCHANGED <<config, breaker, result>>
                     ELSE IF Incomplete(r.returns)
                     THEN /\ config' = Accumulated(config, r.returns)
                          /\ breaker' = r.returns.complete
                          /\ UNCHANGED <<pc, outcome, raised, result>>
                     ELSE /\ pc' = "done"
                          /\ outcome' = "returned"
                          /\ result' = None
                          /\ UNCHANGED <<config, breaker, raised>>
            /\ UNCHANGED <<op, args, server, doc>>

(***************************************************************************)
(* greynoise.cli.formatter: get_location and the two formatters that       *)
(* derive metadata["location"].  The rendering of the template is the      *)
(* templating engine's and is left opaque.                                 *)
(***************************************************************************)
RECURSIVE Join(_, _)
Join(sep, l) ==
    IF l = <<>> THEN ""
    ELSE IF Len(l) = 1 THEN l[1]
    ELSE l[1] \o sep \o Join(sep, Tail(l))

\* Mutant: the segments are joined by ", ".
get_location_comma_joined(metadata) ==
    LET city == metadata.city
        country == metadata.country
        country_code == metadata.country_code
        l1 == IF city # "" THEN <<city \o ",">> ELSE <<>>
        l2 == IF country # "" THEN Append(l1, country) ELSE l1
        location == IF country_code # "" THEN Append(l2, "(" \o country_code \o ")") ELSE l2
    IN Join(", ", location)

get_location(metadata) ==
    LET city == metadata.city
        country == metadata.country
        country_code == metadata.country_code
        l1 == IF city # "" THEN <<city \o ",">> ELSE <<>>
        l2 == IF country # "" THEN Append(l1, country) ELSE l1
        location == IF country_code # "" THEN Append(l2, "(" \o country_code \o ")") ELSE l2
    IN Join(" ", location)

SetItem(d, key, value) == [k \in DOMAIN d \cup {key} |-> IF k = key THEN value ELSE d[k]]

\* if ip_context["seen"]: metadata["location"] = get_location(metadata)
WithLocation(ip_context) ==
    IF ip_context.seen
    THEN [ip_context EXCEPT !.metadata = SetItem(@, "location", get_location(@))]
    ELSE ip_context

ip_context_formatter(ip_context, verbose) ==
    /\ pc = "idle"
    /\ Done("ip_context_formatter", [ip_context |-> ip_context, verbose |-> verbose],
            <<>>, "returned", NoRaised, Str("<ip_context.txt.j2>"),
            Dict(WithLocation(ip_context)))

gnql_query_formatter(gnql, verbose) ==
    /\ pc = "idle"
    /\ Done("gnql_query_formatter", [gnql |-> gnql, verbose |-> verbose],
            <<>>, "returned", NoRaised, Str("<gnql.txt.j2>"),
            Dict(IF "data" \in DOMAIN gnql
                 THEN [gnql EXCEPT !.data = [i \in DOMAIN @ |-> WithLocation(@[i])]]
                 ELSE gnql))

(***************************************************************************)
(* The inputs the model draws.                                             *)
(***************************************************************************)
DateArgs == {None} \cup {Str(d) : d \in DateInputs}

BulkArgs ==
    {List(l) : l \in SeqsUpTo(IPInputs, MaxBulk)}
        \cup {None, Str("8.8.8.8"), Tuple(<<"8.8.8.8", "not-an-ip">>)}

PageResponses ==
    {JsonResponse(200, b) : b \in NoiseBodies}
        \cup {JsonResponse(404, ErrorJson),
              JsonResponse(299, [noise_ips |-> <<"d">>, complete |-> TRUE]),
              TransportFailure}

\* The page that ends a dump: the last one, or one the request fails on.
Terminal(response) ==
    \/ ~response.transport_ok
    \/ ~status_in_range(response.status_code)
    \/ ~response.json_ok
    \/ response.json.complete

\* The server ends every dump within MaxPages pages.
ServerPages ==
    {p \in SeqsUpTo(PageResponses, MaxPages) : p # <<>> /\ Terminal(p[Len(p)])}

ContextEntries == ContextBodies \cup {[seen |-> FALSE]}

GnqlResults ==
    {[data |-> d, count |-> Len(d)] : d \in SeqsUpTo(ContextEntries, MaxData)}
        \cup {[count |-> 0, message |-> "no results"]}

(***************************************************************************)
(* The state machine.                                                      *)
(***************************************************************************)
Init ==
    /\ pc = "idle"
    /\ op = "none"
    /\ args = <<>>
    /\ server = <<>>
    /\ requests = <<>>
    /\ config = NoConfig
    /\ breaker = FALSE
    /\ outcome = "none"
    /\ raised = NoRaised
    /\ result = None
    /\ doc = NoDoc

\* The caller has its result or its exception; every value of the call was
\* the call's own (the client keeps only its api_key), and the next call
\* starts from the state after construction.
NextCall ==
    /\ pc = "done"
    /\ pc' = "idle"
    /\ op' = "none"
    /\ args' = <<>>
    /\ server' = <<>>
    /\ requests' = <<>>
    /\ config' = NoConfig
    /\ breaker' = FALSE
    /\ outcome' = "none"
    /\ raised' = NoRaised
    /\ result' = None
    /\ doc' = NoDoc

\* A public operation is called when none is running.
Idle == pc = "idle"

Next ==
    \/ Idle /\ \E ip_address \in IPInputs, response \in Responses(StatusRecords) :
          get_noise_status(ip_address, response)
    \/ Idle /\ \E ip_addresses \in BulkArgs, response \in Responses(BulkStatusBodies) :
          get_noise_status_bulk(ip_addresses, response)
    \/ Idle /\ \E ip_address \in IPInputs, response \in Responses(ContextBodies) :
          get_context(ip_address, response)
    \/ Idle /\ \E date \in DateArgs, response \in Responses(NoiseBodies) :
          get_noise_once(date, response)
    \/ Idle /\ \E date \in DateArgs, pages \in ServerPages :
          get_noise_recurse(date, pages)
    \/ _recurse
    \/ Idle /\ \E ip_context \in ContextEntries, verbose \in BOOLEAN :
          ip_context_formatter(ip_context, verbose)
    \/ Idle /\ \E gnql \in GnqlResults, verbose \in BOOLEAN :
          gnql_query_formatter(gnql, verbose)
    \/ NextCall

Spec == Init /\ [][Next]_vars

\* _recurse is the running call's own next step: a call in progress goes on.
FairSpec == Spec /\ WF_vars(_recurse)

(***************************************************************************)
(* Properties.                                                             *)
(***************************************************************************)
NoDuplicates(l) == \A i, j \in DOMAIN l : i # j => l[i] # l[j]

\* The request got a response that _request hands to its caller.
Answered(response) ==
    response.transport_ok /\ response.status_code \in 200..298 /\ response.json_ok

\* The server's pages are all answered and only the last has complete = true.
CompleteOnLastPageOnly ==
    \A i \in DOMAIN server :
        Answered(server[i]) /\ (server[i].json.complete <=> i = Len(server))

RecursiveDump == op = "get_noise" /\ args.recurse

\* C1: get_noise(recurse=True), given pages of which the last and only the
\* last has complete = true, returns {results, result_count}: results holds
\* the noise_ips of all the pages, each once, and result_count is its length.
C1_RecursiveDumpReturnsUnion ==
    (RecursiveDump /\ pc = "done" /\ server # <<>> /\ CompleteOnLastPageOnly) =>
        /\ outcome = "returned"
        /\ result.type = "dict"
        /\ DOMAIN result.value = {"results", "result_count"}
        /\ Range(result.value.results) =
               UNION {Range(server[i].json.noise_ips) : i \in DOMAIN server}
        /\ NoDuplicates(result.value.results)
        /\ result.value.result_count = Len(result.value.results)

\* The call failed validation and issued no request.
RejectedBeforeRequest == pc = "done" /\ outcome = "ValueError" /\ requests = <<>>

\* C2 as stated: a malformed IP given to get_noise_status or get_context, a
\* malformed date given to get_noise, a non-list given to
\* get_noise_status_bulk: the call fails validation and issues no request.
C2_Original ==
    /\ (op \in {"get_noise_status", "get_context"}
            /\ validate_ip(args.ip_address, FALSE).returns = FALSE)
         => RejectedBeforeRequest
    /\ (op = "get_noise" /\ args.date.type = "str" /\ validate_date(args.date.value).raises)
         => RejectedBeforeRequest
    /\ (op = "get_noise_status_bulk" /\ args.ip_addresses.type # "list")
         => RejectedBeforeRequest

\* C2, amended: as C2_Original, the malformed date being a non-empty string
\* (an empty string is taken as no date).
C2_ValidationBeforeRequest ==
    /\ (op \in {"get_noise_status", "get_context"}
            /\ validate_ip(args.ip_address, FALSE).returns = FALSE)
         => RejectedBeforeRequest
    /\ (op = "get_noise" /\ args.date.type = "str" /\ args.date.value # ""
            /\ validate_date(args.date.value).raises)
         => RejectedBeforeRequest
    /\ (op = "get_noise_status_bulk" /\ args.ip_addresses.type # "list")
         => RejectedBeforeRequest

C2_Witness ==
    /\ op = "get_noise"
    /\ args.recurse
    /\ args.date = Str("2019-02-30")
    /\ RejectedBeforeRequest

\* The indices of the entries that pass non-strict validation.
ValidIndices(l) == {j \in DOMAIN l : validate_ip(l[j], FALSE).returns}

\* C3: the list sent under "ips" is the input's entries that pass non-strict
\* validation, all of them, in their order; it is sent even when empty.
C3_BulkSendsFilteredList ==
    (pc = "done" /\ op = "get_noise_status_bulk" /\ args.ip_addresses.type = "list") =>
        /\ Len(requests) = 1
        /\ requests[1].endpoint = "noise/multi/quick"
        /\ requests[1].json.type = "dict"
        /\ DOMAIN requests[1].json.value = {"ips"}
        /\ LET input == args.ip_addresses.value
               sent == requests[1].json.value.ips
               valid == ValidIndices(input)
           IN /\ Len(sent) = Cardinality(valid)
              /\ \A i \in DOMAIN sent :
                    \E k \in valid :
                        /\ Cardinality({j \in valid : j < k}) = i - 1
                        /\ sent[i] = input[k]

C3_Witness ==
    /\ pc = "done"
    /\ op = "get_noise_status_bulk"
    /\ args.ip_addresses = List(<<"8.8.8.8", "not-an-ip", "8.8.8.8">>)
    /\ requests[1].json.value.ips = <<"8.8.8.8", "8.8.8.8">>
    /\ outcome = "returned"

\* The status code dictionary as section 6 of the specification words it.
Section6Messages ==
    [c \in {"0x00", "0x01", "0x02", "0x03", "0x04", "0x05", "0x06", "0x07", "0x08"} |->
        CASE c = "0x00" -> "IP has never been observed scanning the Internet"
          [] c = "0x01" -> "IP has been observed by the sensor network"
          [] c = "0x02" -> "Observed scanning the sensor network but no full connection (spoofable)"
          [] c = "0x03" -> "Adjacent to a directly observed host"
          [] c = "0x04" -> "RESERVED"
          [] c = "0x05" -> "Commonly spoofed in Internet-scan activity"
          [] c = "0x06" -> "Observed as noise, but host belongs to a cloud provider with frequent IP cycling"
          [] c = "0x07" -> "IP is invalid"
          [] c = "0x08" -> "Classified as noise, but not seen in scans/attacks in over 60 days"]

\* The enriched record `out` of the server's record `in`, under the table.
EnrichedBy(table, in, out) ==
    /\ DOMAIN out = DOMAIN in \cup {"code_message"}
    /\ \A k \in DOMAIN in \ {"code_message"} : out[k] = in[k]
    /\ in.code \in DOMAIN table => out.code_message = table[in.code]
    /\ in.code \notin DOMAIN table => out.code_message = "Code message unknown: " \o in.code

\* What get_noise_status and get_noise_status_bulk return is the server's
\* record, or records, enriched under the table.
EnrichedResults(table) ==
    /\ (pc = "done" /\ op = "get_noise_status" /\ outcome = "returned") =>
          /\ result.type = "dict"
          /\ EnrichedBy(table, requests[1].response.json, result.value)
    /\ (pc = "done" /\ op = "get_noise_status_bulk" /\ outcome = "returned") =>
          /\ result.type = "list"
          /\ Len(result.value) = Len(requests[1].response.json)
          /\ \A i \in DOMAIN result.value :
                EnrichedBy(table, requests[1].response.json[i], result.value[i])

\* C4 as stated: code_message is the message section 6 lists for the code,
\* "Code message unknown: <code>" for a code it does not list; every other
\* field is the server's.
C4_Original == EnrichedResults(Section6Messages)

\* C4, amended: code_message is the message the client's CODE_MESSAGES holds
\* for the code (section 6 words it otherwise but for 0x00, 0x04 and 0x07).
C4_CodeEnrichment ==
    /\ EnrichedResults(CODE_MESSAGES)
    /\ (pc = "done" /\ op = "get_noise_status" /\ outcome = "returned") =>
          /\ result.value.code = "0x01" =>
                result.value.code_message = "IP has been observed by the GreyNoise sensor network"
          /\ result.value.code = "0xFF" =>
                result.value.code_message = "Code message unknown: 0xFF"
    /\ {c \in DOMAIN CODE_MESSAGES : CODE_MESSAGES[c] = Section6Messages[c]}
           = {"0x00", "0x04", "0x07"}

C4_Witness ==
    /\ pc = "done"
    /\ op = "get_noise_status_bulk"
    /\ outcome = "returned"
    /\ Len(result.value) = 2
    /\ result.value[1].code = "0x02"
    /\ result.value[1].code_message = CODE_MESSAGES["0x02"]
    /\ result.value[2].code = "0xFF"
    /\ result.value[2].code_message = "Code message unknown: 0xFF"

Returned(i) ==
    i < Len(requests) \/ pc = "recursing" \/ (pc = "done" /\ outcome = "returned")

\* Exchange i of the call ended with RequestFailure(status_code, content).
FailedWith(i, status_code, content) ==
    /\ i = Len(requests)
    /\ pc = "done"
    /\ outcome = "RequestFailure"
    /\ raised = [status_code |-> status_code, content |-> content]

\* C6 as stated, of responses whose body is JSON: a status in [200, 299)
\* returns the parsed body and any other status fails with
\* RequestFailure(status, raw body); no return on a non-2xx status and no
\* RequestFailure on a 2xx status.
C6_Original ==
    \A i \in DOMAIN requests :
        LET response == requests[i].response
            s == response.status_code
        IN (response.transport_ok /\ response.json_ok) =>
              /\ s \in 200..298 => Returned(i)
              /\ s \notin 200..298 => FailedWith(i, s, response.content)
              /\ s \notin 200..299 => ~Returned(i)
              /\ s \in 200..299 => ~FailedWith(i, s, response.content)

\* C6, amended: as C6_Original, but RequestFailure is excluded only on a
\* status in [200, 299): the 2xx status 299 fails with RequestFailure.  What
\* is returned is the parsed body (get_context hands it on as it is).
C6_RequesterStatus ==
    /\ \A i \in DOMAIN requests :
          LET response == requests[i].response
              s == response.status_code
          IN (response.transport_ok /\ response.json_ok) =>
                /\ s \in 200..298 => Returned(i)
                /\ s \notin 200..298 => FailedWith(i, s, response.content)
                /\ s \notin 200..299 => ~Returned(i)
                /\ s \in 200..298 => ~FailedWith(i, s, response.content)
    /\ (pc = "done" /\ op = "get_context" /\ outcome = "returned") =>
          result = Dict(requests[1].response.json)

C6_Witness ==
    /\ pc = "done"
    /\ op = "get_context"
    /\ requests # <<>>
    /\ requests[1].response.status_code = 299
    /\ requests[1].response.json_ok
    /\ outcome = "RequestFailure"
    /\ raised = [status_code |-> 299, content |-> "<json>"]

\* The request ended in a transport error or a non-2xx status.
Failed(response) == ~response.transport_ok \/ response.status_code \notin 200..299

\* C7: a request that ends in a non-2xx status or a transport error is the
\* call's last one, the call is over with that failure raised (RequestFailure
\* with the status and the raw body), and no value is returned.
C7_NoRetryNoSwallow ==
    \A i \in DOMAIN requests :
        LET response == requests[i].response IN
        Failed(response) =>
            /\ i = Len(requests)
            /\ pc = "done"
            /\ result = None
            /\ IF response.transport_ok
               THEN FailedWith(i, response.status_code, response.content)
               ELSE outcome = "TransportError"

C7_Witness ==
    /\ RecursiveDump
    /\ pc = "done"
    /\ Len(server) = 3
    /\ Len(requests) = 2
    /\ requests[2].response.status_code = 404
    /\ outcome = "RequestFailure"
    /\ raised.status_code = 404

\* The location of section 3, by which of the three fields are empty.
ExpectedLocation(m) ==
    LET c == m.city # ""
        n == m.country # ""
        k == m.country_code # ""
    IN CASE  c /\  n /\  k -> m.city \o ", " \o m.country \o " (" \o m.country_code \o ")"
         []  c /\  n /\ ~k -> m.city \o ", " \o m.country
         []  c /\ ~n /\  k -> m.city \o ", (" \o m.country_code \o ")"
         []  c /\ ~n /\ ~k -> m.city \o ","
         [] ~c /\  n /\  k -> m.country \o " (" \o m.country_code \o ")"
         [] ~c /\  n /\ ~k -> m.country
         [] ~c /\ ~n /\  k -> "(" \o m.country_code \o ")"
         [] ~c /\ ~n /\ ~k -> ""

\* The entry `out` a formatter leaves of the entry `in` it was given.
Located(in, out) ==
    IF in.seen
    THEN /\ DOMAIN out = DOMAIN in
         /\ out.seen
         /\ DOMAIN out.metadata = DOMAIN in.metadata \cup {"location"}
         /\ \A k \in DOMAIN in.metadata : out.metadata[k] = in.metadata[k]
         /\ out.metadata.location = ExpectedLocation(in.metadata)
         /\ in.metadata = [city |-> "Paris", country |-> "France", country_code |-> "FR"]
               => out.metadata.location = "Paris, France (FR)"
         /\ in.metadata = [city |-> "", country |-> "France", country_code |-> "FR"]
               => out.metadata.location = "France (FR)"
         /\ in.metadata = [city |-> "", country |-> "", country_code |-> ""]
               => out.metadata.location = ""
    ELSE out = in

\* C8: get_location joins "<city>,", "<country>" and "(<country_code>)", in
\* that order, each left out when its field is empty, by single spaces; the
\* formatters of ip.context and gnql.query set metadata.location on the
\* entries whose seen is true and leave the others as they are.
C8_Location ==
    /\ (pc = "done" /\ op = "ip_context_formatter") =>
          /\ doc.type = "dict"
          /\ Located(args.ip_context, doc.value)
    /\ (pc = "done" /\ op = "gnql_query_formatter") =>
          /\ doc.type = "dict"
          /\ DOMAIN doc.value = DOMAIN args.gnql
          /\ IF "data" \in DOMAIN args.gnql
             THEN /\ doc.value.count = args.gnql.count
                  /\ Len(doc.value.data) = Len(args.gnql.data)
                  /\ \A i \in DOMAIN args.gnql.data :
                        Located(args.gnql.data[i], doc.value.data[i])
             ELSE doc.value = args.gnql

C8_Witness ==
    /\ pc = "done"
    /\ op = "gnql_query_formatter"
    /\ "data" \in DOMAIN args.gnql
    /\ Len(args.gnql.data) = 2
    /\ args.gnql.data[1] =
          [seen |-> TRUE,
           metadata |-> [city |-> "Paris", country |-> "France", country_code |-> "FR"]]
    /\ args.gnql.data[2] =
          [seen |-> FALSE,
           metadata |-> [city |-> "Paris", country |-> "France", country_code |-> "FR"]]
    /\ doc.value.data[1].metadata.location = "Paris, France (FR)"
    /\ doc.value.data[2] = args.gnql.data[2]

\* The pagination protocol, at every state of a recursive dump: the requests
\* are answered by the server's pages in order; every request but the last
\* was answered with complete = false; a page with complete = true ends the
\* call; and a call that has returned has asked for exactly the pages up to
\* the first with complete = true.
C9_Protocol ==
    RecursiveDump =>
        /\ Len(requests) <= Len(server)
        /\ \A i \in DOMAIN requests :
              /\ requests[i].response = server[i]
              /\ i < Len(requests) =>
                    Answered(server[i]) /\ server[i].json.complete = FALSE
              /\ (Answered(server[i]) /\ server[i].json.complete) =>
                    i = Len(requests) /\ pc = "done" /\ outcome = "returned"
        /\ (pc = "done" /\ outcome = "returned") =>
              /\ requests # <<>>
              /\ Answered(server[Len(requests)])
              /\ server[Len(requests)].json.complete
        /\ (pc = "done" /\ server # <<>> /\ CompleteOnLastPageOnly) =>
              Len(requests) = Len(server)

\* C9: the protocol holds throughout, and a recursive dump whose server sends
\* complete = true (or fails a request) ends.
C9_Pagination == []C9_Protocol /\ ((pc = "recursing") ~> (pc = "done"))

C9_Witness ==
    /\ RecursiveDump
    /\ pc = "done"
    /\ outcome = "returned"
    /\ CompleteOnLastPageOnly
    /\ Len(server) = 3
    /\ Len(requests) = 3

\* The number of pages answered with complete = false so far.
IncompletePages ==
    Cardinality({i \in DOMAIN requests :
                    Answered(requests[i].response) /\ ~requests[i].response.json.complete})

\* C10: in a recursive dump every request goes to the endpoint the call
\* started with, with empty params; the config keeps its endpoint, params and
\* data_key; and config["results"] holds the data_key name once per page
\* answered with complete = false, and no item of a page's noise_ips.
C10_ConfigUntouched ==
    (RecursiveDump /\ outcome # "ValueError") =>
        /\ \A i \in DOMAIN requests :
              /\ requests[i].endpoint = requests[1].endpoint
              /\ requests[i].url = requests[1].url
              /\ requests[i].params = EmptyDict
              /\ requests[i].endpoint = config.endpoint
        /\ requests # <<>> =>
              requests[1].endpoint =
                  IF args.date.type = "str" /\ args.date.value # ""
                  THEN "noise/bulk/" \o args.date.value ELSE "noise/bulk"
        /\ config.params = EmptyDict
        /\ config.data_key = "noise_ips"
        /\ config.results = [i \in 1..IncompletePages |-> "noise_ips"]
        /\ \A i \in DOMAIN requests :
              Answered(requests[i].response) =>
                  Range(config.results) \cap Range(requests[i].response.json.noise_ips) = {}

C10_Witness ==
    /\ RecursiveDump
    /\ pc = "done"
    /\ outcome = "returned"
    /\ Len(requests) = 3
    /\ requests[1].response.json.noise_ips = <<"a", "b">>
    /\ config.results = <<"noise_ips", "noise_ips">>

====
